---- MODULE Spec2Model ----
(***************************************************************************)
(* The API gateway of microservice-sales-management: the in-memory service *)
(* registry (routes/index.js), the round-robin balancer                    *)
(* (utils/loadbalancer.js) and the proxy route.                            *)
(*                                                                         *)
(* A request handler runs to completion on Node's single thread, so each   *)
(* handler is one atomic action up to the point where it hands work to the *)
(* event loop (fs.writeFile, await axios).  The callback of the write and  *)
(* the continuation of the forward are actions of their own.               *)
(***************************************************************************)
EXTENDS Integers, Sequences, FiniteSets, Bags, TLC

VARIABLES
    instances,  \* registry.services[api].instances: sequence of [url, enabled]
    index,      \* registry.services[api].index: the round-robin cursor
    strategy,   \* registry.services[api].loadBalanceStrategy
    writes,     \* bag of fs.writeFile calls whose callback has not run yet
    fwd,        \* bag of axios calls awaited by a proxy handler
    disk,       \* routes/registry.json: the instance lists of the image
    crashed,    \* the process died of an uncaught exception / unhandled rejection
    last,       \* the handler step just taken: its request and its response
    run,        \* history: indices of the consecutive successful selections
                \* since the last change of the service's instance list
    regOk,      \* history: register calls answered 200, per service
    regErr,     \* history: register calls answered 500 by the write callback
    pristine,   \* history: the list started empty and nothing was unregistered
    removed,    \* history: urls unregistered and not registered again since
    sent,       \* history: responses sent to the request that defaulted the
                \* strategy of the service
    limits,     \* the bounds a specification runs under, fixed by its Init:
                \* writes and forwards in flight, and whether `disk` and
                \* `sent` are kept
    users,      \* user-management: the rows of its users table, by id
    reply       \* user-management: the request just handled and its response

vars == <<instances, index, strategy, writes, fwd, disk, crashed, last, run,
          regOk, regErr, pristine, removed, sent, limits, users, reply>>

gatewayVars == <<instances, index, strategy, writes, fwd, disk, crashed, last,
                 run, regOk, regErr, pristine, removed, sent, limits>>
umVars == <<users, reply>>

registryVars == <<instances, index, strategy>>
histVars == <<run, regOk, regErr, pristine, removed, sent>>

---------------------------------------------------------------------------
(* Bounds of the model *)

MaxPending == 1     \* fs.writeFile calls in flight at once
MaxInflight == 1    \* forwarded requests in flight at once
MaxCursor == 4      \* largest starting cursor drawn by InitRR

\* Service names present in the registry image, and a name that is not.
Services == {"usermanagement"}
UnknownApi == "nosuchservice"
ApiNames == Services \cup {UnknownApi}

\* Fields of the request bodies.
Protocols == {"http"}
Hosts == {"h1", "h2"}
HostsRR == {"h1", "h2", "h3"}
Ports == {"3001"}

\* JavaScript's undefined: a field the body or the record does not carry.
Absent == "absent"
\* The values of `enabled` (JSON true / false, or no field).
Flags == {"true", "false", Absent}
\* What the bodies of the modelled requests carry as `enabled`: the backends
\* register without the field, an operator may send it; a toggle sends it.
RegisterFlags == {Absent, "true"}
ToggleFlags == {"true", "false"}
TruthyUnlessFalse(v) == v # "false"

\* What JavaScript takes for true in `instance.enabled ? ... : ...`.
Truthy(v) == v = "true"

---------------------------------------------------------------------------
(* Pure helpers *)

\* registrationInfo.protocol + "://" + host + ":" + port + "/"
DeriveUrl(protocol, host, port) ==
    protocol \o "://" \o host \o ":" \o port \o "/"

Urls == {DeriveUrl(p, h, q) : p \in Protocols, h \in Hosts, q \in Ports}
UrlsRR == {DeriveUrl(p, h, q) : p \in Protocols, h \in HostsRR, q \in Ports}
UrlField == Urls \cup {Absent}

\* Whether a list holds an instance with this url (used by the properties).
HasUrl(insts, url) == \E i \in 1..Len(insts) : insts[i].url = url

\* instances.some(instance => instance.enabled)
SomeEnabled(insts) == \E i \in 1..Len(insts) : Truthy(insts[i].enabled)

\* Array.prototype.findIndex on the url: 0-based, -1 when nothing matches.
findIndex(insts, url) ==
    IF \E i \in 1..Len(insts) : insts[i].url = url
    THEN (CHOOSE i \in 1..Len(insts) :
            /\ insts[i].url = url
            /\ \A j \in 1..(i - 1) : insts[j].url # url) - 1
    ELSE -1

\* splice(index) without a delete count: everything from index on.
spliceToEnd(insts, start) == SubSeq(insts, 1, start)

spliceNothing(insts, start) == insts

\* Array.prototype.splice(start, 1): a negative start counts from the end.
splice(insts, start) ==
    LET n == Len(insts)
        s0 == IF start < 0
              THEN (IF n + start < 0 THEN 0 ELSE n + start)
              ELSE (IF start > n THEN n ELSE start)
    IN  IF s0 >= n THEN insts
        ELSE [i \in 1..(n - 1) |-> IF i <= s0 THEN insts[i] ELSE insts[i + 1]]

apiAlreadyExistsNever(api, url) == FALSE

apiAlreadyExistsAlways(api, url) == TRUE

\* Looks at the head of the list only.
apiAlreadyExistsFirstOnly(api, url) ==
    Len(instances[api]) >= 1 /\ instances[api][1].url = url

\* apiAlreadyExists(registrationInfo): forEach over the service's instances.
apiAlreadyExists(api, url) ==
    \E i \in 1..Len(instances[api]) : instances[api][i].url = url

pushNothing(insts, inst) == insts

\* registry.services[apiName].instances.push({ ...registrationInfo })
push(insts, inst) == Append(insts, inst)

---------------------------------------------------------------------------
(* The balancer.  A selection yields the cursor it leaves behind and the   *)
(* index it returns, or Throw when it throws 'No enabled instances         *)
(* available'.                                                             *)

Throw == -1

RECURSIVE ROUND_ROBIN(_, _)
RECURSIVE isEnabled(_, _)

\* ++service.index >= service.instances.length ? 0 : service.index
advance(idx, len) == IF idx + 1 >= len THEN 0 ELSE idx + 1

\* What a call of the balancer leaves and returns: the cursor stored in
\* service.index, the index returned (Throw for the exception), and how many
\* times line 5 advanced the cursor during the call.
Selection(idx, result, advances) ==
    [index |-> idx, result |-> result, advances |-> advances]

isEnabledAnyway(insts, idx) == Selection(idx, idx, 0)

\* loadbalancer.isEnabled(service, index, loadBalanceStrategy)
isEnabled(insts, idx) ==
    IF Truthy(insts[idx + 1].enabled)
    THEN Selection(idx, idx, 0)
    ELSE ROUND_ROBIN(insts, idx)

\* A balancer that restarts its sweep at the head of the list on every call.
ROUND_ROBIN_fromHead(insts, idx) ==
    IF ~SomeEnabled(insts)
    THEN Selection(advance(idx, Len(insts)), Throw, 1)
    ELSE LET k == CHOOSE i \in 1..Len(insts) :
                    /\ Truthy(insts[i].enabled)
                    /\ \A j \in 1..(i - 1) : ~Truthy(insts[j].enabled)
         IN  Selection(k - 1, k - 1, 1)

\* A balancer that, at every disabled instance it meets, walks again from
\* the cursor it was called with: it returns what the sweep returns, after
\* 1 + 2 + ... + k advances where the sweep needs k.
ROUND_ROBIN_rescan(insts, idx) ==
    IF ~SomeEnabled(insts)
    THEN Selection(advance(idx, Len(insts)), Throw, 1)
    ELSE LET n == Len(insts)
             pos(k) == (advance(idx, n) + k - 1) % n
             k == CHOOSE i \in 1..n :
                    /\ Truthy(insts[pos(i) + 1].enabled)
                    /\ \A j \in 1..(i - 1) : ~Truthy(insts[pos(j) + 1].enabled)
         IN  Selection(pos(k), pos(k), (k * (k + 1)) \div 2)

\* loadbalancer.ROUND_ROBIN(service)
ROUND_ROBIN(insts, idx) ==
    LET newIndex == advance(idx, Len(insts))
    IN  IF ~SomeEnabled(insts)
        THEN Selection(newIndex, Throw, 1)
        ELSE [isEnabled(insts, newIndex) EXCEPT !.advances = @ + 1]

---------------------------------------------------------------------------
(* Requests and responses *)

NoStatus == 0   \* no response has been sent (yet)

Step(op, svc, url, key, status, sel) ==
    [op |-> op, svc |-> svc, url |-> url, key |-> key, status |-> status,
     sel |-> sel]

\* The image of a registry without instances; also what stands for the
\* image in a specification that does not keep it.
EmptyImage == [s \in Services |-> <<>>]

\* JSON.stringify(registry), taken when fs.writeFile is called: the handlers
\* call it after their change of the instance list.
Snapshot == IF limits.image THEN instances' ELSE EmptyImage

Write(op, svc) == [op |-> op, svc |-> svc, snap |-> Snapshot]

IssueWrite(w) == writes (+) SetToBag({w})

Limits(w, f, image, track) ==
    [writes |-> w, forwards |-> f, image |-> image, track |-> track]

\* A forward in flight; dflt: its request defaulted the strategy.
Forward(svc, url, dflt) == [svc |-> svc, url |-> url, dflt |-> dflt]

\* The window of the last Len(instances) + 1 selections.
Window(r, n) == IF Len(r) > n + 1 THEN SubSeq(r, Len(r) - n, Len(r)) ELSE r

---------------------------------------------------------------------------
(* Response bodies.  A JSON string is <<"string", s>>, a JSON object is    *)
(* <<"object", key, value, ...>>.                                          *)

Str(s) == <<"string", s>>

NoResponseMsg == "No response received from the API"
DefaultErrorMsg == "An error occurred"

\* error.message of an axios failure.
AxiosErrorMsg == "connect ECONNREFUSED"

\* Bodies a backend answers with: an object without a message field, an
\* object with one, and a bare string.
ItemsBody == <<"object", "items", Str("x")>>
MessageBody == <<"object", "message", Str(NoResponseMsg)>>
TextBody == Str(AxiosErrorMsg)
DownBodies == {ItemsBody, MessageBody, TextBody}

\* Statuses a backend answers with; axios resolves on 2xx and rejects with
\* error.response on the others.
DownStatuses == {200, 404, 502}

\* error.response.data.message || 'An error occurred'
messageOf(data) ==
    IF data[1] = "object" /\ data[2] = "message"
    THEN data[3] ELSE Str(DefaultErrorMsg)

\* What the await of axios ends in: a response of the backend, no response,
\* or a failure to set the request up.
Answered(status, data) ==
    [outcome |-> "response", status |-> status, data |-> data]
NoResponse == [outcome |-> "noResponse", status |-> 0, data |-> Str(AxiosErrorMsg)]
SetupError == [outcome |-> "setupError", status |-> 0, data |-> Str(AxiosErrorMsg)]
AxiosResults ==
    {Answered(s, d) : s \in DownStatuses, d \in DownBodies}
        \cup {NoResponse, SetupError}

GatewayResponseAll500(res) ==
    CASE res.outcome = "response" /\ res.status \in 200..299 ->
            [status |-> res.status, body |-> res.data]
      [] res.outcome = "response" ->
            [status |-> res.status,
             body |-> <<"object", "message", messageOf(res.data),
                        "error", res.data>>]
      [] OTHER ->
            [status |-> 500,
             body |-> <<"object", "message",
                        Str("Request setup error: " \o res.data[2])>>]

\* What the proxy handler sends for the outcome of the forward: the try
\* block on a 2xx response, the three branches of the catch block otherwise.
GatewayResponse(res) ==
    CASE res.outcome = "response" /\ res.status \in 200..299 ->
            [status |-> res.status, body |-> res.data]
      [] res.outcome = "response" ->
            [status |-> res.status,
             body |-> <<"object", "message", messageOf(res.data),
                        "error", res.data>>]
      [] res.outcome = "noResponse" ->
            [status |-> 502,
             body |-> <<"object", "message", Str(NoResponseMsg),
                        "error", res.data>>]
      [] OTHER ->
            [status |-> 500,
             body |-> <<"object", "message",
                        Str("Request setup error: " \o res.data[2])>>]

UnknownServiceAs404 == 400 + 4

\* res.status(400).json({ message: 'Service name does not exist' })
UnknownServiceStatus == 400

callbackStatusSwallowsError(op, ok) ==
    IF op = "unregister" THEN 201 ELSE 200

\* The status the callback of fs.writeFile sends for register, unregister
\* and enableOrDisable.
callbackStatus(op, ok) ==
    IF ~ok THEN 500 ELSE IF op = "unregister" THEN 201 ELSE 200

setEnabledAll(insts, i, en) ==
    [k \in 1..Len(insts) |-> [insts[k] EXCEPT !.enabled = en]]

\* instances[index].enabled = requestBody.enabled
setEnabled(insts, i, en) == [insts EXCEPT ![i + 1].enabled = en]

urlAtHead(insts, i) == insts[1].url

\* const url = service.instances[newIndex].url
urlAt(insts, i) == insts[i + 1].url

strategyUntouched(api) == strategy

\* if (!service.loadBalanceStrategy) service.loadBalanceStrategy = 'ROUND_ROBIN'
withDefaultStrategy(api) ==
    [strategy EXCEPT ![api] = IF @ = Absent THEN "ROUND_ROBIN" ELSE @]

\* A cursor that is stored only when no forward of the gateway is pending.
storeCursorUnlessBusy(api, sel) ==
    IF fwd # EmptyBag THEN index ELSE [index EXCEPT ![api] = sel.index]

\* service.index = newIndex, as the selection leaves it
storeCursor(api, sel) == [index EXCEPT ![api] = sel.index]

---------------------------------------------------------------------------
(* The user-management backend: tokens, the guards of middleware/auth.js,  *)
(* passwords and the users table.                                          *)

UserIds == {1, 2}
\* Three of the four roles the users table admits.
Roles == {"admin", "manager", "sales_rep"}

\* The Authorization header.  `sig` tells how the token it carries relates
\* to SECRET_KEY: signed with it and intact, altered after signing, signed
\* with another secret, or past its expiry; "none" is a request without the
\* header.  `id` and `role` are the claims of the payload.
Token(sig, id, role) == [sig |-> sig, id |-> id, role |-> role]
NoToken == Token("none", 0, Absent)
Signatures == {"signed", "tampered", "wrong_secret", "expired"}
\* The headers of the modelled requests: none, a good token of any user and
\* role, and an admin's token whose signature does not verify.
Headers ==
    {NoToken} \cup {Token("signed", i, r) : i \in UserIds, r \in Roles}
        \cup {Token(s, 1, "admin") : s \in Signatures \ {"signed"}}

\* jwt.verify(token.replace('Bearer ', ''), SECRET_KEY, cb): cb gets an error
\* unless the signature matches SECRET_KEY and the token has not expired.
jwtVerify(h) == h.sig = "signed"

\* What a middleware does: call next(), or answer and stop.
Pass == [next |-> TRUE, status |-> 0, error |-> ""]
Deny(status, error) == [next |-> FALSE, status |-> status, error |-> error]

authenticateToken(h) ==
    IF h.sig = "none" THEN Deny(401, "Access denied. No token provided.")
    ELSE IF ~jwtVerify(h) THEN Deny(403, "Invalid or expired token.")
    ELSE Pass

authorizeRoleAny(roles, user) == Pass

authorizeRole(roles, user) ==
    IF user.role \notin roles
    THEN Deny(403, "Access denied. Unauthorized role.")
    ELSE Pass

\* userId is parseInt(req.params.id, 10)
authorizeSelfOrRole(roles, user, userId) ==
    IF user.id # userId /\ user.role \notin roles
    THEN Deny(403, "Access denied. Unauthorized action.")
    ELSE Pass

\* A password of a request body: its text and what validatePassword tests
\* of it (length, an upper-case and a lower-case letter, the character set).
Password(text, len, upper, lower, clean) ==
    [text |-> text, len |-> len, upper |-> upper, lower |-> lower,
     clean |-> clean]
NoPassword == Password("", 0, FALSE, FALSE, TRUE)
OldPass == Password("oldPass", 7, TRUE, TRUE, TRUE)
WrongPass == Password("wrongPass", 9, TRUE, TRUE, TRUE)
NewPass == Password("newPass123", 10, TRUE, TRUE, TRUE)
WeakPass == Password("weak", 4, FALSE, TRUE, TRUE)
Passwords == {NoPassword, OldPass, WrongPass, NewPass, WeakPass}

\* "" stands for the null of a password that passes.
validatePassword(p) ==
    IF p.len < 3 \/ p.len > 16
    THEN "Password must be between 3 and 16 characters long"
    ELSE IF ~p.upper \/ ~p.lower
    THEN "Password must contain at least one lower and one uppercase character"
    ELSE IF ~p.clean
    THEN "Password must contain only letters, numbers and the following characters ! # $ % & * + - _ . ,"
    ELSE ""

\* bcrypt.hash and bcrypt.compare
hash(p) == <<"bcrypt", p.text>>
compare(p, hashed) == hashed = hash(p)

\* A row of the users table, and the tables over UserIds.
Accounts == [role : Roles, password : {hash(OldPass)}]
UserTables == UNION {[D -> Accounts] : D \in SUBSET UserIds}
NoUsers == [i \in {} |-> hash(NoPassword)]

\* Which callback of the handler sqlite3 hands an error to, if any.
DbErrors == {"none", "get", "run"}

Body(old, new) == [oldPassword |-> old, newPassword |-> new]
NoBody == Body(NoPassword, NoPassword)
\* The bodies sent to reset-password.
Bodies ==
    {Body(OldPass, NoPassword), Body(OldPass, WeakPass),
     Body(OldPass, NewPass), Body(WrongPass, NewPass)}

\* `handled` tells whether the route's own handler ran.
Reply(op, h, id, body, dbErr, handled, status, error) ==
    [op |-> op, header |-> h, id |-> id, body |-> body, dbErr |-> dbErr,
     handled |-> handled, status |-> status, error |-> error]
NoReply == Reply("start", NoToken, 0, NoBody, "none", FALSE, 0, "")

---------------------------------------------------------------------------
(* Initial states *)

\* The image routes/registry.json is read once at start (index.js line 4).
\* The registry starts with every known service holding an empty list; the
\* strategy may or may not be set in the image.
Init ==
    /\ instances = [s \in Services |-> <<>>]
    /\ index = [s \in Services |-> 0]
    /\ strategy \in [Services -> {Absent, "ROUND_ROBIN"}]
    /\ writes = EmptyBag
    /\ fwd = EmptyBag
    /\ disk = EmptyImage
    /\ crashed = FALSE
    /\ last = Step("start", UnknownApi, Absent, Absent, NoStatus, Throw)
    /\ run = [s \in Services |-> <<>>]
    /\ regOk = [s \in Services |-> 0]
    /\ regErr = [s \in Services |-> 0]
    /\ pristine = [s \in Services |-> TRUE]
    /\ removed = [s \in Services |-> {}]
    /\ sent = [s \in Services |-> 0]
    /\ limits = Limits(MaxPending, MaxInflight, FALSE, FALSE)
    /\ users = NoUsers
    /\ reply = NoReply

---------------------------------------------------------------------------
(* router.post('/register') *)

Register(api, protocol, host, port, en) ==
    LET url == DeriveUrl(protocol, host, port)
    IN  /\ ~crashed
        /\ IF api \notin DOMAIN instances
           THEN \* registry.services[apiName] is undefined: the TypeError of
                \* the synchronous handler reaches errorHandler (500).
                /\ last' = Step("register", api, url, url, 500, Throw)
                /\ UNCHANGED <<registryVars, writes, histVars>>
           ELSE IF apiAlreadyExists(api, url)
           THEN /\ last' = Step("register", api, url, url, 400, Throw)
                /\ UNCHANGED <<registryVars, writes, histVars>>
           ELSE /\ BagCardinality(writes) < limits.writes
                /\ instances' = [instances EXCEPT ![api] =
                       push(@, [url |-> url, enabled |-> en])]
                /\ writes' = IssueWrite(Write("register", api))
                /\ last' = Step("register", api, url, url, NoStatus, Throw)
                             @@ [en |-> en]
                /\ run' = [run EXCEPT ![api] = <<>>]
                /\ removed' = [removed EXCEPT ![api] = @ \ {url}]
                /\ UNCHANGED <<index, strategy, regOk, regErr, pristine, sent>>
        /\ UNCHANGED <<fwd, disk, crashed, limits, umVars>>

(* router.post('/unregister'): the body's url field is used as it comes;   *)
(* protocol, host and port are read by nothing.                            *)
Unregister(api, protocol, host, port, url) ==
    LET key == DeriveUrl(protocol, host, port)
    IN  /\ ~crashed
        /\ IF api \notin DOMAIN instances
           THEN /\ last' = Step("unregister", api, url, key, 500, Throw)
                /\ UNCHANGED <<registryVars, writes, histVars>>
           ELSE IF apiAlreadyExists(api, url)
           THEN /\ BagCardinality(writes) < limits.writes
                /\ instances' = [instances EXCEPT ![api] =
                       splice(@, findIndex(@, url))]
                /\ writes' = IssueWrite(Write("unregister", api))
                /\ last' = Step("unregister", api, url, key, NoStatus, Throw)
                /\ run' = [run EXCEPT ![api] = <<>>]
                /\ pristine' = [pristine EXCEPT ![api] = FALSE]
                /\ regOk' = [regOk EXCEPT ![api] = 0]
                /\ regErr' = [regErr EXCEPT ![api] = 0]
                /\ removed' = [removed EXCEPT ![api] = @ \cup {url}]
                /\ UNCHANGED <<index, strategy, sent>>
           ELSE /\ last' = Step("unregister", api, url, key, 404, Throw)
                /\ UNCHANGED <<registryVars, writes, histVars>>
        /\ UNCHANGED <<fwd, disk, crashed, limits, umVars>>

(* router.post('/enableOrDisable/:apiName') *)
EnableOrDisable(api, url, en) ==
    /\ ~crashed
    /\ IF api \notin DOMAIN instances
       THEN /\ last' = Step("enableOrDisable", api, url, url, 500, Throw)
            /\ UNCHANGED <<registryVars, writes, histVars>>
       ELSE LET i == findIndex(instances[api], url)
            IN  IF i = -1
                THEN /\ last' = Step("enableOrDisable", api, url, url, 404, Throw)
                     /\ UNCHANGED <<registryVars, writes, histVars>>
                ELSE /\ BagCardinality(writes) < limits.writes
                     /\ instances' = [instances EXCEPT ![api] =
                            setEnabled(@, i, en)]
                     /\ writes' = IssueWrite(Write("enableOrDisable", api))
                     /\ last' = Step("enableOrDisable", api, url, url, NoStatus, Throw)
                     /\ run' = [run EXCEPT ![api] = <<>>]
                     /\ UNCHANGED <<index, strategy, regOk, regErr, pristine,
                                    removed, sent>>
    /\ UNCHANGED <<fwd, disk, crashed, limits, umVars>>

(* router.all('/:apiName/*') up to the await.  A throw of the balancer     *)
(* rejects the promise of the async handler: Express 5 passes it to        *)
(* errorHandler (500), Express 4 leaves it unhandled, which ends the       *)
(* process on Node 15 and later.  The repository pins neither, so `caught` *)
(* ranges over both outcomes.                                              *)
Proxy(api, caught) ==
    /\ ~crashed
    /\ UNCHANGED <<disk, limits, umVars>>
    /\ IF api \notin DOMAIN instances
       THEN /\ last' = Step("proxy", api, Absent, Absent,
                            UnknownServiceStatus, Throw)
            /\ UNCHANGED <<registryVars, writes, fwd, crashed, histVars>>
       ELSE LET dflt == strategy[api] = Absent
                sel == ROUND_ROBIN(instances[api], index[api])
            IN  /\ dflt => BagCardinality(writes) < limits.writes
                /\ UNCHANGED <<instances, regOk, regErr, pristine, removed>>
                /\ sent' = IF limits.track /\ dflt
                           THEN [sent EXCEPT ![api] =
                                   IF sel.result = Throw /\ caught
                                   THEN 1 ELSE 0]
                           ELSE sent
                /\ strategy' = withDefaultStrategy(api)
                /\ writes' = IF dflt THEN IssueWrite(Write("strategy", api))
                                     ELSE writes
                /\ index' = storeCursor(api, sel)
                /\ IF sel.result = Throw
                   THEN /\ crashed' = ~caught
                        /\ last' = Step("proxy", api, Absent, Absent,
                                        IF caught THEN 500 ELSE NoStatus, Throw)
                                     @@ [advances |-> sel.advances]
                        /\ run' = [run EXCEPT ![api] = <<>>]
                        /\ UNCHANGED fwd
                   ELSE LET url == urlAt(instances[api], sel.result)
                        IN  /\ BagCardinality(fwd) < limits.forwards
                            /\ fwd' = fwd (+) SetToBag({Forward(api, url,
                                                            limits.track /\ dflt)})
                            /\ last' = Step("proxy", api, url, url, NoStatus,
                                            sel.result)
                                         @@ [advances |-> sel.advances]
                            /\ run' = [run EXCEPT ![api] =
                                   Window(Append(@, sel.result),
                                          Len(instances[api]))]
                            /\ UNCHANGED crashed

\* A proxy handler that selects again and forwards again when its forward
\* got no response.
ForwardDoneRetry(f, res) ==
    /\ ~crashed
    /\ BagIn(f, fwd)
    /\ IF res.outcome = "noResponse" /\ SomeEnabled(instances[f.svc])
       THEN LET sel == ROUND_ROBIN(instances[f.svc], index[f.svc])
                url == instances[f.svc][sel.result + 1].url
            IN  /\ index' = storeCursor(f.svc, sel)
                /\ fwd' = (fwd (-) SetToBag({f}))
                            (+) SetToBag({Forward(f.svc, url, f.dflt)})
                /\ last' = Step("forwarded", f.svc, f.url, res.outcome,
                                NoStatus, Throw)
                             @@ [down |-> res, body |-> res.data]
       ELSE /\ fwd' = fwd (-) SetToBag({f})
            /\ last' = Step("forwarded", f.svc, f.url, res.outcome,
                            GatewayResponse(res).status, Throw)
                         @@ [down |-> res, body |-> GatewayResponse(res).body]
            /\ UNCHANGED index
    /\ UNCHANGED <<instances, strategy, writes, disk, crashed, histVars, limits,
                   umVars>>

(* The continuation of the proxy handler after `await axios(...)`: it      *)
(* answers the client with GatewayResponse and does nothing else.          *)
ForwardDone(f, res) ==
    /\ ~crashed
    /\ BagIn(f, fwd)
    /\ fwd' = fwd (-) SetToBag({f})
    /\ last' = Step("forwarded", f.svc, f.url, res.outcome,
                    GatewayResponse(res).status, Throw)
                 @@ [down |-> res, body |-> GatewayResponse(res).body]
    /\ sent' = IF f.dflt THEN [sent EXCEPT ![f.svc] = @ + 1] ELSE sent
    /\ UNCHANGED <<registryVars, writes, disk, crashed, run, regOk, regErr,
                   pristine, removed, limits, umVars>>

strategyCallbackAnswers(ok) ==
    [throws |-> FALSE, answers |-> IF ok THEN 0 ELSE 1,
     status |-> IF ok THEN NoStatus ELSE 500]

\* The callback of the default-strategy write.  It does nothing when the
\* write succeeded; when it failed, the argument of logger.error reads
\* `registrationInfo`, which the proxy route does not define, and the
\* ReferenceError leaves the callback before res.status(500) is reached.
strategyCallback(ok) == [throws |-> ~ok, answers |-> 0, status |-> NoStatus]

(* The callback of fs.writeFile.  A write that succeeds leaves its         *)
(* snapshot in the file; a failed one is taken to leave the file as it     *)
(* was.  The callback of the default-strategy write reads                  *)
(* `registrationInfo`, which its scope does not define: on a failed write  *)
(* it throws a ReferenceError out of the callback.                         *)
WriteDone(w, ok) ==
    /\ ~crashed
    /\ BagIn(w, writes)
    /\ writes' = writes (-) SetToBag({w})
    /\ disk' = IF limits.image /\ ok THEN w.snap ELSE disk
    /\ IF w.op = "strategy"
       THEN /\ crashed' = strategyCallback(ok).throws
            /\ last' = Step("written", w.svc, Absent, w.op,
                            strategyCallback(ok).status, Throw)
                         @@ [failed |-> ~ok]
            /\ sent' = IF limits.track
                       THEN [sent EXCEPT ![w.svc] =
                               @ + strategyCallback(ok).answers]
                       ELSE sent
            /\ UNCHANGED <<regOk, regErr>>
       ELSE /\ last' = Step("written", w.svc, Absent, w.op,
                            callbackStatus(w.op, ok), Throw)
                         @@ [failed |-> ~ok]
            /\ regOk' = IF w.op = "register" /\ pristine[w.svc] /\ ok
                        THEN [regOk EXCEPT ![w.svc] = @ + 1] ELSE regOk
            /\ regErr' = IF w.op = "register" /\ pristine[w.svc] /\ ~ok
                         THEN [regErr EXCEPT ![w.svc] = @ + 1] ELSE regErr
            /\ UNCHANGED <<crashed, sent>>
    /\ UNCHANGED <<registryVars, fwd, run, pristine, removed, limits, umVars>>

---------------------------------------------------------------------------
(* The gateway *)

\* A request body either carries the url its protocol, host and port derive
\* to, or carries no url field.
BodyUrls(protocol, host, port) == {DeriveUrl(protocol, host, port), Absent}

Next ==
    \/ \E api \in Services, p \in Protocols, h \in Hosts, q \in Ports,
          en \in RegisterFlags : Register(api, p, h, q, en)
    \/ \E p \in Protocols, h \in Hosts, q \in Ports :
          Register(UnknownApi, p, h, q, Absent)
    \/ \E api \in ApiNames, p \in Protocols, h \in Hosts, q \in Ports :
          \E url \in BodyUrls(p, h, q) : Unregister(api, p, h, q, url)
    \/ \E api \in Services, url \in UrlField, en \in ToggleFlags :
          EnableOrDisable(api, url, en)
    \/ \E url \in Urls, en \in ToggleFlags :
          EnableOrDisable(UnknownApi, url, en)
    \/ \E api \in ApiNames, caught \in BOOLEAN : Proxy(api, caught)
    \/ \E f \in BagToSet(fwd), res \in AxiosResults : ForwardDone(f, res)
    \/ \E w \in BagToSet(writes), ok \in BOOLEAN : WriteDone(w, ok)

Spec == Init /\ [][Next]_vars

---------------------------------------------------------------------------
(* The balancer on its own: any registry image, any starting cursor, and   *)
(* no request that changes the instance list.                              *)

RegistryLists(urls) ==
    UNION {{l \in [1..n -> [url : urls, enabled : Flags]] :
                \A i, j \in 1..n : i # j => l[i].url # l[j].url} :
           n \in 0..Cardinality(urls)}

InitRR ==
    /\ instances \in [Services -> RegistryLists(UrlsRR)]
    /\ index \in [Services -> 0..MaxCursor]
    /\ strategy = [s \in Services |-> "ROUND_ROBIN"]
    /\ writes = EmptyBag
    /\ fwd = EmptyBag
    /\ crashed = FALSE
    /\ last = Step("start", UnknownApi, Absent, Absent, NoStatus, Throw)
    /\ run = [s \in Services |-> <<>>]
    /\ regOk = [s \in Services |-> 0]
    /\ regErr = [s \in Services |-> 0]
    /\ pristine = [s \in Services |-> FALSE]
    /\ removed = [s \in Services |-> {}]
    /\ sent = [s \in Services |-> 0]
    /\ disk = EmptyImage
    /\ limits = Limits(MaxPending, MaxInflight + 1, FALSE, FALSE)
    /\ users = NoUsers
    /\ reply = NoReply

NextRR ==
    \/ \E api \in Services, caught \in BOOLEAN : Proxy(api, caught)
    \/ \E f \in BagToSet(fwd), res \in AxiosResults : ForwardDone(f, res)

SpecRR == InitRR /\ [][NextRR]_vars

---------------------------------------------------------------------------
(* The durable image.  Each write carries the registry as JSON.stringify   *)
(* saw it when the handler called fs.writeFile; two calls may be in flight *)
(* at once and every one of them succeeds.                                 *)

InitDisk ==
    /\ instances = [s \in Services |-> <<>>]
    /\ index = [s \in Services |-> 0]
    /\ strategy = [s \in Services |-> "ROUND_ROBIN"]
    /\ writes = EmptyBag
    /\ fwd = EmptyBag
    /\ disk = EmptyImage
    /\ crashed = FALSE
    /\ last = Step("start", UnknownApi, Absent, Absent, NoStatus, Throw)
    /\ run = [s \in Services |-> <<>>]
    /\ regOk = [s \in Services |-> 0]
    /\ regErr = [s \in Services |-> 0]
    /\ pristine = [s \in Services |-> TRUE]
    /\ removed = [s \in Services |-> {}]
    /\ sent = [s \in Services |-> 0]
    /\ limits = Limits(MaxPending + 1, MaxInflight, TRUE, FALSE)
    /\ users = NoUsers
    /\ reply = NoReply

NextDisk ==
    \/ \E api \in Services, p \in Protocols, h \in Hosts, q \in Ports :
          Register(api, p, h, q, Absent)
    \/ \E api \in Services, p \in Protocols, h \in Hosts, q \in Ports :
          Unregister(api, p, h, q, DeriveUrl(p, h, q))
    \/ \E api \in Services, url \in Urls :
          EnableOrDisable(api, url, "false")
    \/ \E w \in BagToSet(writes) : WriteDone(w, TRUE)

SpecDisk == InitDisk /\ [][NextDisk]_vars

---------------------------------------------------------------------------
(* The registry and the balancer over three instances: registrations and   *)
(* removals between selections, every write succeeding and every forward   *)
(* answered.                                                               *)

InitSweep ==
    /\ instances = [s \in Services |-> <<>>]
    /\ index = [s \in Services |-> 0]
    /\ strategy = [s \in Services |-> "ROUND_ROBIN"]
    /\ writes = EmptyBag
    /\ fwd = EmptyBag
    /\ disk = EmptyImage
    /\ crashed = FALSE
    /\ last = Step("start", UnknownApi, Absent, Absent, NoStatus, Throw)
    /\ run = [s \in Services |-> <<>>]
    /\ regOk = [s \in Services |-> 0]
    /\ regErr = [s \in Services |-> 0]
    /\ pristine = [s \in Services |-> TRUE]
    /\ removed = [s \in Services |-> {}]
    /\ sent = [s \in Services |-> 0]
    /\ limits = Limits(MaxPending, MaxInflight, FALSE, FALSE)
    /\ users = NoUsers
    /\ reply = NoReply

NextSweep ==
    \/ \E api \in Services, p \in Protocols, h \in HostsRR, q \in Ports,
          en \in RegisterFlags : Register(api, p, h, q, en)
    \/ \E api \in Services, p \in Protocols, h \in HostsRR, q \in Ports :
          Unregister(api, p, h, q, DeriveUrl(p, h, q))
    \/ \E api \in Services : Proxy(api, TRUE)
    \/ \E f \in BagToSet(fwd) : ForwardDone(f, Answered(200, ItemsBody))
    \/ \E w \in BagToSet(writes) : WriteDone(w, TRUE)

SpecSweep == InitSweep /\ [][NextSweep]_vars

---------------------------------------------------------------------------
(* The responses of the gateway: one instance per service, every handler   *)
(* with every outcome of its write, and `sent` kept for the request that   *)
(* defaults the strategy.                                                  *)

InitAnswers ==
    /\ instances = [s \in Services |-> <<>>]
    /\ index = [s \in Services |-> 0]
    /\ strategy \in [Services -> {Absent, "ROUND_ROBIN"}]
    /\ writes = EmptyBag
    /\ fwd = EmptyBag
    /\ disk = EmptyImage
    /\ crashed = FALSE
    /\ last = Step("start", UnknownApi, Absent, Absent, NoStatus, Throw)
    /\ run = [s \in Services |-> <<>>]
    /\ regOk = [s \in Services |-> 0]
    /\ regErr = [s \in Services |-> 0]
    /\ pristine = [s \in Services |-> TRUE]
    /\ removed = [s \in Services |-> {}]
    /\ sent = [s \in Services |-> 0]
    /\ limits = Limits(MaxPending + 1, MaxInflight, FALSE, TRUE)
    /\ users = NoUsers
    /\ reply = NoReply

NextAnswers ==
    \/ \E api \in ApiNames, p \in Protocols, q \in Ports,
          en \in RegisterFlags : Register(api, p, "h1", q, en)
    \/ \E api \in ApiNames, p \in Protocols, q \in Ports :
          Unregister(api, p, "h1", q, DeriveUrl(p, "h1", q))
    \/ \E api \in ApiNames, p \in Protocols, q \in Ports,
          en \in ToggleFlags :
             EnableOrDisable(api, DeriveUrl(p, "h1", q), en)
    \/ \E api \in ApiNames, caught \in BOOLEAN : Proxy(api, caught)
    \/ \E f \in BagToSet(fwd) :
          \E res \in {Answered(200, ItemsBody), NoResponse} :
             ForwardDone(f, res)
    \/ \E w \in BagToSet(writes), ok \in BOOLEAN : WriteDone(w, ok)

SpecAnswers == InitAnswers /\ [][NextAnswers]_vars

---------------------------------------------------------------------------
(* A registry of two services: registrations, removals and selections of   *)
(* each run between those of the other.                                    *)

FrameServices == {"usermanagement", "customermanagement"}
\* usermanagement runs on both hosts, customermanagement on the first.
FrameHosts(api) == IF api = "usermanagement" THEN Hosts ELSE {"h1"}

InitFrame ==
    /\ instances = [s \in FrameServices |-> <<>>]
    /\ index = [s \in FrameServices |-> 0]
    /\ strategy = [s \in FrameServices |-> "ROUND_ROBIN"]
    /\ writes = EmptyBag
    /\ fwd = EmptyBag
    /\ disk = EmptyImage
    /\ crashed = FALSE
    /\ last = Step("start", UnknownApi, Absent, Absent, NoStatus, Throw)
    /\ run = [s \in FrameServices |-> <<>>]
    /\ regOk = [s \in FrameServices |-> 0]
    /\ regErr = [s \in FrameServices |-> 0]
    /\ pristine = [s \in FrameServices |-> TRUE]
    /\ removed = [s \in FrameServices |-> {}]
    /\ sent = [s \in FrameServices |-> 0]
    /\ limits = Limits(MaxPending, MaxInflight, FALSE, FALSE)
    /\ users = NoUsers
    /\ reply = NoReply

NextFrame ==
    \/ \E api \in FrameServices, p \in Protocols, q \in Ports :
          \E h \in FrameHosts(api), en \in RegisterFlags :
             Register(api, p, h, q, en)
    \/ \E api \in FrameServices, p \in Protocols, q \in Ports :
          \E h \in FrameHosts(api) :
             Unregister(api, p, h, q, DeriveUrl(p, h, q))
    \/ \E api \in FrameServices : Proxy(api, TRUE)
    \/ \E f \in BagToSet(fwd) : ForwardDone(f, Answered(200, ItemsBody))
    \/ \E w \in BagToSet(writes) : WriteDone(w, TRUE)

SpecFrame == InitFrame /\ [][NextFrame]_vars

---------------------------------------------------------------------------
(* The routes of user-management behind authenticateToken.  Each action    *)
(* is the middleware chain of one request followed by the route's handler  *)
(* and its sqlite3 callbacks.                                              *)

Refuse(op, h, id, body, dbErr, verdict) ==
    /\ reply' = Reply(op, h, id, body, dbErr, FALSE, verdict.status,
                      verdict.error)
    /\ UNCHANGED users

Respond(op, h, id, body, dbErr, status, error) ==
    reply' = Reply(op, h, id, body, dbErr, TRUE, status, error)

\* The roles each route hands to authorizeRole.
RouteRoles(op) ==
    IF op = "getUsers" THEN {"admin", "manager"} ELSE {"admin"}

(* app.get('/users', authenticateToken, authorizeRole(['admin','manager'])) *)
GetUsers(h, dbErr) ==
    LET op == "getUsers"
        authn == authenticateToken(h)
        authz == authorizeRole(RouteRoles(op), h)
    IN  /\ UNCHANGED gatewayVars
        /\ IF ~authn.next THEN Refuse(op, h, 0, NoBody, dbErr, authn)
           ELSE IF ~authz.next THEN Refuse(op, h, 0, NoBody, dbErr, authz)
           ELSE /\ IF dbErr = "none"
                   THEN Respond(op, h, 0, NoBody, dbErr, 200, "")
                   ELSE Respond(op, h, 0, NoBody, dbErr, 500, "SQLITE_ERROR")
                /\ UNCHANGED users

(* app.delete('/users/:id', authenticateToken, authorizeRole(['admin'])),  *)
(* the first of the two routes registered for DELETE /users/:id: it never  *)
(* calls next(), so the second one is not reached.                         *)
DeleteUser(h, id, dbErr) ==
    LET op == "deleteUser"
        authn == authenticateToken(h)
        authz == authorizeRole(RouteRoles(op), h)
    IN  /\ UNCHANGED gatewayVars
        /\ IF ~authn.next THEN Refuse(op, h, id, NoBody, dbErr, authn)
           ELSE IF ~authz.next THEN Refuse(op, h, id, NoBody, dbErr, authz)
           ELSE IF dbErr = "get"
           THEN /\ Respond(op, h, id, NoBody, dbErr, 500, "Database error")
                /\ UNCHANGED users
           ELSE IF id \notin DOMAIN users
           THEN /\ Respond(op, h, id, NoBody, dbErr, 400, "User not found")
                /\ UNCHANGED users
           ELSE IF dbErr = "run"
           THEN /\ Respond(op, h, id, NoBody, dbErr, 500, "SQLITE_ERROR")
                /\ UNCHANGED users
           ELSE /\ Respond(op, h, id, NoBody, dbErr, 200, "")
                /\ users' = [i \in DOMAIN users \ {id} |-> users[i]]

(* app.put('/users/:id/reset-password', authenticateToken,                 *)
(*         authorizeSelfOrRole([]))                                        *)
ResetPassword(h, id, body, dbErr) ==
    LET op == "resetPassword"
        authn == authenticateToken(h)
        authz == authorizeSelfOrRole({}, h, id)
    IN  /\ UNCHANGED gatewayVars
        /\ IF ~authn.next THEN Refuse(op, h, id, body, dbErr, authn)
           ELSE IF ~authz.next THEN Refuse(op, h, id, body, dbErr, authz)
           ELSE IF body.oldPassword = NoPassword \/ body.newPassword = NoPassword
           THEN /\ Respond(op, h, id, body, dbErr, 400,
                           "Both old and new passwords are required")
                /\ UNCHANGED users
           ELSE IF validatePassword(body.newPassword) # ""
           THEN /\ Respond(op, h, id, body, dbErr, 400,
                           validatePassword(body.newPassword))
                /\ UNCHANGED users
           ELSE IF dbErr = "get"
           THEN /\ Respond(op, h, id, body, dbErr, 500, "SQLITE_ERROR")
                /\ UNCHANGED users
           ELSE IF id \notin DOMAIN users
           THEN /\ Respond(op, h, id, body, dbErr, 404, "User not found")
                /\ UNCHANGED users
           ELSE IF ~compare(body.oldPassword, users[id].password)
           THEN /\ Respond(op, h, id, body, dbErr, 401,
                           "Old password is incorrect")
                /\ UNCHANGED users
           ELSE IF dbErr = "run"
           THEN /\ Respond(op, h, id, body, dbErr, 500, "SQLITE_ERROR")
                /\ UNCHANGED users
           ELSE /\ Respond(op, h, id, body, dbErr, 200, "")
                /\ users' = [users EXCEPT ![id].password =
                                hash(body.newPassword)]

\* The gateway plays no part here; the table holds any rows over UserIds.
InitUM ==
    /\ instances = [s \in Services |-> <<>>]
    /\ index = [s \in Services |-> 0]
    /\ strategy = [s \in Services |-> "ROUND_ROBIN"]
    /\ writes = EmptyBag
    /\ fwd = EmptyBag
    /\ disk = EmptyImage
    /\ crashed = FALSE
    /\ last = Step("start", UnknownApi, Absent, Absent, NoStatus, Throw)
    /\ run = [s \in Services |-> <<>>]
    /\ regOk = [s \in Services |-> 0]
    /\ regErr = [s \in Services |-> 0]
    /\ pristine = [s \in Services |-> TRUE]
    /\ removed = [s \in Services |-> {}]
    /\ sent = [s \in Services |-> 0]
    /\ limits = Limits(MaxPending, MaxInflight, FALSE, FALSE)
    /\ users \in UserTables
    /\ reply = NoReply

NextUM ==
    \/ \E h \in Headers, e \in DbErrors \ {"run"} : GetUsers(h, e)
    \/ \E h \in Headers, id \in UserIds, e \in DbErrors : DeleteUser(h, id, e)
    \/ \E h \in Headers, id \in UserIds, b \in Bodies, e \in DbErrors :
          ResetPassword(h, id, b, e)

SpecUM == InitUM /\ [][NextUM]_vars

---------------------------------------------------------------------------
(* Properties *)

AllEnabled(insts) == \A i \in 1..Len(insts) : Truthy(insts[i].enabled)

EnabledAt(insts, url) ==
    \E i \in 1..Len(insts) : insts[i].url = url /\ Truthy(insts[i].enabled)

PendingRegisters(s) ==
    LET regs == {w \in BagToSet(writes) : w.op = "register" /\ w.svc = s}
    IN  BagCardinality([w \in regs |-> writes[w]])

\* C1: no service's instance list holds two instances with the same url.
C1_UniqueUrls ==
    \A s \in Services :
        \A i, j \in 1..Len(instances[s]) :
            i # j => instances[s][i].url # instances[s][j].url

C1_Witness ==
    \E s \in Services :
        /\ Len(instances[s]) = 2
        /\ last.op = "register" /\ last.svc = s /\ last.status = 400

\* C2: the instance at the index a selection returns is enabled at that
\* moment, and an instance that is not enabled becomes enabled again only by
\* an enableOrDisable call naming its url with enabled = true.
C2_SelectedIsEnabled ==
    (last.op = "proxy" /\ last.sel # Throw) =>
        /\ last.sel \in 0..(Len(instances[last.svc]) - 1)
        /\ instances[last.svc][last.sel + 1].enabled = "true"
        /\ instances[last.svc][last.sel + 1].url = last.url

C2_ReenabledOnlyByToggle ==
    \A s \in Services : \A u \in Urls :
        (HasUrl(instances[s], u) /\ ~EnabledAt(instances[s], u)
            /\ EnabledAt(instances'[s], u))
        => (last'.op = "enableOrDisable" /\ last'.svc = s /\ last'.url = u)

C2_NeverDisabled ==
    [](C2_SelectedIsEnabled) /\ [][C2_ReenabledOnlyByToggle]_vars

C2_Witness ==
    /\ last.op = "proxy" /\ last.sel = 1
    /\ Len(instances[last.svc]) = 2
    /\ ~Truthy(instances[last.svc][1].enabled)
    /\ Len(run[last.svc]) >= 2

\* C3: with all N >= 1 instances enabled and the list untouched, any N
\* consecutive selections return N distinct indices, all of 0..N-1, and the
\* selection after them repeats the first, whatever the starting cursor.
C3_CyclicCoverage ==
    \A s \in Services :
        LET n == Len(instances[s])
            r == run[s]
        IN  (n >= 1 /\ AllEnabled(instances[s])) =>
                /\ \A i, j \in 1..Len(r) : (i < j /\ j - i < n) => r[i] # r[j]
                /\ Len(r) >= n =>
                       {r[i] : i \in (Len(r) - n + 1)..Len(r)} = 0..(n - 1)
                /\ Len(r) = n + 1 => r[n + 1] = r[1]

C3_Witness ==
    \E s \in Services :
        /\ Len(instances[s]) = 3 /\ AllEnabled(instances[s])
        /\ Len(run[s]) = 4

\* C4 (as claimed): whenever the instance list is non-empty the cursor is a
\* valid index into it.
C4_CursorInRange ==
    \A s \in Services :
        Len(instances[s]) > 0 =>
            (0 <= index[s] /\ index[s] < Len(instances[s]))

\* C5 (as claimed): a proxied request to a known service without an enabled
\* instance is answered, with a failure status other than the 400 of an
\* unknown service, and the gateway survives it.
C5_NoBackendAnswered ==
    (last.op = "proxy" /\ last.svc \in Services
        /\ ~SomeEnabled(instances[last.svc]))
    => (~crashed /\ last.status >= 401 /\ last.status <= 599)

\* C6: a register call whose derived url is already in the service's list
\* is answered 400 and changes neither the registry nor the pending writes.
C6_DuplicateRejected ==
    [][(last'.op = "register" /\ last'.svc \in Services
          /\ HasUrl(instances[last'.svc], last'.key))
       => (last'.status = 400
           /\ UNCHANGED <<instances, index, strategy, writes>>)]_vars

C6_Witness ==
    /\ last.op = "register" /\ last.svc \in Services /\ last.status = 400
    /\ HasUrl(instances[last.svc], last.key)

\* C7 (as claimed): from an empty list and with no unregister, once every
\* register call has been answered the length of the list is the number of
\* register calls answered with success.
C7_LengthIsSuccesses ==
    \A s \in Services :
        (pristine[s] /\ PendingRegisters(s) = 0) =>
            Len(instances[s]) = regOk[s]

\* C7 (amended): from an empty list and with no unregister, the length of
\* the list is the number of register calls answered 200, plus those
\* answered 500 because the write failed, plus those whose write is pending.
C7_LengthIsAccepted ==
    \A s \in Services :
        pristine[s] =>
            Len(instances[s]) = regOk[s] + regErr[s] + PendingRegisters(s)

C7_Witness ==
    \E s \in Services :
        /\ pristine[s] /\ regOk[s] = 1 /\ regErr[s] = 1
        /\ Len(instances[s]) = 2
        /\ last.op = "written" /\ last.key = "register"

\* C8 (as claimed): an unregister call without a url field, whose protocol,
\* host and port are those of an earlier register call answered with
\* success, removes exactly the instance of that url.
C8_UnregisterByFields ==
    [][(last'.op = "unregister" /\ last'.svc \in Services
          /\ last'.url = Absent
          /\ pristine[last'.svc] /\ regErr[last'.svc] = 0
          /\ PendingRegisters(last'.svc) = 0
          /\ HasUrl(instances[last'.svc], last'.key))
       => (/\ ~HasUrl(instances'[last'.svc], last'.key)
           /\ Len(instances'[last'.svc]) = Len(instances[last'.svc]) - 1)]_vars

\* C9: an unregister call whose url matches no instance of the service is
\* answered 404 and changes neither the registry nor the pending writes.
C9_UnknownUrlRejected ==
    [][(last'.op = "unregister" /\ last'.svc \in Services
          /\ ~HasUrl(instances[last'.svc], last'.url))
       => (last'.status = 404
           /\ UNCHANGED <<instances, index, strategy, writes>>)]_vars

C9_Witness ==
    /\ last.op = "unregister" /\ last.svc \in Services /\ last.status = 404
    /\ Len(instances[last.svc]) >= 1
    /\ last.url \in Urls

\* C10 (as claimed): an enableOrDisable call is answered 404 when the url
\* matches no instance of a known service and when the service is unknown.
C10_NotFound ==
    (last.op = "enableOrDisable"
        /\ (last.svc \notin Services \/ ~HasUrl(instances[last.svc], last.url)))
    => last.status = 404

\* C11: an enableOrDisable call for a url that was unregistered from its
\* service, and not registered for it again since, is answered 404.
C11_ToggleAfterUnregisterNotFound ==
    (/\ last.op = "enableOrDisable"
     /\ last.svc \in Services
     /\ last.url \in removed[last.svc]) => last.status = 404

\* C11 witness: the unregister's write is over and a later enableOrDisable
\* for the removed url was answered 404.
C11_Witness ==
    /\ last.op = "enableOrDisable"
    /\ last.svc \in Services
    /\ last.url \in removed[last.svc]
    /\ last.status = 404
    /\ writes = EmptyBag

\* C12: when the write issued by register, unregister or enableOrDisable
\* fails, its callback answers 500 and leaves the in-memory registry as the
\* mutation made it.
C12_WriteFailureKeepsMutation ==
    [][(/\ last'.op = "written"
        /\ last'.key \in {"register", "unregister", "enableOrDisable"}
        /\ last'.failed
        /\ BagCardinality(writes') < BagCardinality(writes))
          => (last'.status = 500 /\ UNCHANGED registryVars)]_vars

\* C12 witness: the write of a register failed, the caller was answered 500
\* and the instance is still in the list.
C12_Witness ==
    /\ last.op = "written"
    /\ last.key = "register"
    /\ last.failed
    /\ last.status = 500
    /\ Len(instances[last.svc]) = 1
    /\ regErr[last.svc] = 1

\* C13: when every write issued has completed, and all of them succeeded,
\* the durable image holds the instance lists of the in-memory registry.
C13_ImageIsLatest == writes = EmptyBag => disk = instances

C15_RelayedVerbatim ==
    (last.op = "forwarded" /\ last.key = "response")
    => (last.status = last.down.status /\ last.body = last.down.data)

\* The gateway fault of a forward that got no response.
UpstreamUnreachable ==
    [status |-> 502,
     body |-> <<"object", "message", Str(NoResponseMsg),
                "error", Str(AxiosErrorMsg)>>]

Answer == [status |-> last.status, body |-> last.body]

\* C16: a forward that got no response is answered with the 502 fault
\* 'No response received from the API'; no relayed backend response, no
\* request-setup failure and no answer of the proxy handler before the
\* forward (unknown service) equals that fault.
C16_UnreachableIsDistinct ==
    /\ (last.op = "forwarded" /\ last.key = "noResponse")
          => Answer = UpstreamUnreachable
    /\ (last.op = "forwarded" /\ last.key # "noResponse")
          => Answer # UpstreamUnreachable
    /\ last.op = "proxy" => last.status # UpstreamUnreachable.status

\* C16 witness: a forward got no response and the client got the 502 fault.
C16_Witness ==
    /\ last.op = "forwarded"
    /\ last.key = "noResponse"
    /\ last.status = 502
    /\ last.body[3] = Str(NoResponseMsg)

\* C17 (as claimed, for the failed write of the default strategy): the
\* gateway does not end in a write callback while a proxied request is
\* still waiting for its answer.
C17_EveryRequestAnswered ==
    (crashed /\ last.op = "written") => fwd = EmptyBag

FlagOf(insts, url) == insts[findIndex(insts, url) + 1].enabled

\* C18: the enabled flag of an instance that stays in the list changes only
\* in an accepted enableOrDisable call naming its service and url; the proxy
\* handler and the end of a forward leave every instance as it was.
C18_FlagChangesOnlyByToggle ==
    [][/\ \A s \in Services, u \in Urls :
            (/\ HasUrl(instances[s], u) /\ HasUrl(instances'[s], u)
             /\ FlagOf(instances'[s], u) # FlagOf(instances[s], u))
            => (/\ last'.op = "enableOrDisable"
                /\ last'.svc = s /\ last'.url = u)
       /\ last'.op \in {"proxy", "forwarded"} => instances' = instances]_vars

\* C18 witness: a forward to an instance got no response and the instance is
\* still enabled.
C18_Witness ==
    /\ last.op = "forwarded"
    /\ last.key = "noResponse"
    /\ EnabledAt(instances[last.svc], last.url)

\* C19: one step adds at most one forward and only the proxy handler adds
\* it; the end of a forward, whatever its outcome, removes that forward,
\* adds none and leaves every cursor alone; a selection that throws adds no
\* forward; the proxy handler moves the cursor by one selection.
C19_NoRetry ==
    [][/\ BagCardinality(fwd') <= BagCardinality(fwd) + 1
       /\ BagCardinality(fwd') > BagCardinality(fwd) => last'.op = "proxy"
       /\ last'.op = "forwarded" =>
              /\ BagCardinality(fwd') = BagCardinality(fwd) - 1
              /\ index' = index
       /\ (last'.op = "proxy" /\ last'.sel = Throw) => fwd' = fwd
       /\ (last'.op = "proxy" /\ last'.svc \in Services) =>
              index'[last'.svc] =
                  ROUND_ROBIN(instances[last'.svc], index[last'.svc]).index]_vars

\* C19 witness: a forward got no response while both instances of the
\* service were enabled, and no forward is in flight after it.
C19_Witness ==
    /\ last.op = "forwarded"
    /\ last.key = "noResponse"
    /\ fwd = EmptyBag
    /\ Len(instances[last.svc]) = 2
    /\ AllEnabled(instances[last.svc])

\* The selection a sequential caller gets from cursor c: the first enabled
\* index in the cyclic order that starts after c.
NextEnabledAfter(insts, c) ==
    LET n == Len(insts)
        start == IF c + 1 >= n THEN 0 ELSE c + 1
        dist(i) == (i - start + n) % n
        enabled == {i \in 0..(n - 1) : Truthy(insts[i + 1].enabled)}
    IN  CHOOSE i \in enabled : \A j \in enabled : dist(i) <= dist(j)

\* C20: with the instance lists untouched, every selection, whatever
\* forwards of earlier requests are still in flight, returns what a
\* sequential caller gets from the cursor the previous selection left, and
\* leaves the cursor on the index it returns; the end of a forward does not
\* move the cursor.
C20_ConcurrentAsSequential ==
    [][/\ \A s \in Services :
            (/\ last'.op = "proxy" /\ last'.svc = s
             /\ SomeEnabled(instances[s]))
            => (/\ last'.sel = NextEnabledAfter(instances[s], index[s])
                /\ index'[s] = last'.sel
                /\ run[s] # <<>> => index[s] = run[s][Len(run[s])])
       /\ last'.op = "forwarded" => index' = index]_vars

\* C20 witness: two forwards are in flight at once and the service has
\* made at least two selections.
C20_Witness ==
    /\ last.op = "proxy"
    /\ last.sel # Throw
    /\ BagCardinality(fwd) = 2
    /\ Len(run[last.svc]) >= 2

\* C21: a request to a route behind authenticateToken and authorizeRole
\* reaches the route's handler only with a token that verifies and whose
\* role is one of the route's roles; without a token it is answered 401,
\* with a tampered or wrongly signed token 403, with a good token of
\* another role 403, and a request that is refused leaves the table as it
\* was.
C21_GuardedByTokenAndRole ==
    [][reply'.op \in {"getUsers", "deleteUser"} =>
          LET h == reply'.header
              roles == RouteRoles(reply'.op)
          IN  /\ reply'.handled => (h.sig = "signed" /\ h.role \in roles)
              /\ h.sig = "none" => reply'.status = 401
              /\ h.sig \in {"tampered", "wrong_secret"} => reply'.status = 403
              /\ (h.sig = "signed" /\ h.role \notin roles) =>
                     reply'.status = 403
              /\ ~reply'.handled => users' = users]_vars

\* C21 witness: a sales_rep's good token asked to delete an existing user,
\* was answered 403, and the user is still there.
C21_Witness ==
    /\ reply.op = "deleteUser"
    /\ reply.header.sig = "signed"
    /\ reply.header.role = "sales_rep"
    /\ reply.status = 403
    /\ ~reply.handled
    /\ reply.id \in DOMAIN users

\* C22 (as claimed): reset-password with both passwords, a valid new one and
\* a token that verifies is answered 404 'User not found' when the id names
\* no row of the table (and the database raises no error).
C22_ResetUnknownUserNotFound ==
    (/\ reply.op = "resetPassword"
     /\ reply.header.sig = "signed"
     /\ reply.body.oldPassword # NoPassword
     /\ reply.body.newPassword # NoPassword
     /\ validatePassword(reply.body.newPassword) = ""
     /\ reply.dbErr = "none"
     /\ reply.id \notin DOMAIN users)
    => (reply.status = 404 /\ reply.error = "User not found")

\* The first enabled index met when advancing from cursor c one position at
\* a time modulo the length of the list.
FirstEnabledModulo(insts, c) ==
    LET n == Len(insts)
        pos(k) == (c + k) % n
        k == CHOOSE i \in 1..n :
                /\ Truthy(insts[pos(i) + 1].enabled)
                /\ \A j \in 1..(i - 1) : ~Truthy(insts[pos(j) + 1].enabled)
    IN  pos(k)

\* C23 (as claimed): on a service with an enabled instance a selection
\* returns the first enabled index met when advancing from the cursor one
\* position at a time modulo instances.length, and leaves the cursor on it.
C23_FirstEnabledFromCursor ==
    [][\A s \in Services :
          (/\ last'.op = "proxy" /\ last'.svc = s
           /\ SomeEnabled(instances[s]))
          => (/\ last'.sel = FirstEnabledModulo(instances[s], index[s])
              /\ index'[s] = last'.sel)]_vars

Max(a, b) == IF a >= b THEN a ELSE b

\* C24 (as claimed): a selection advances the cursor at most
\* instances.length times.
C24_AtMostLengthAdvances ==
    (last.op = "proxy" /\ last.svc \in Services)
    => last.advances <= Len(instances[last.svc])

\* C24: from every list, every flags and every cursor, beyond the end of
\* the list too, a selection ends; it advances the cursor at most
\* instances.length times, and once when the list is empty; it fails exactly
\* when no instance is enabled, after one advance.
C24_OneSweep ==
    (last.op = "proxy" /\ last.svc \in Services)
    => LET n == Len(instances[last.svc])
       IN  /\ last.advances >= 1
           /\ last.advances <= Max(1, n)
           /\ last.sel = Throw <=> ~SomeEnabled(instances[last.svc])
           /\ last.sel = Throw => last.advances = 1

\* C24 witness: a selection on a list of three that needed the whole sweep.
C24_Witness ==
    /\ last.op = "proxy"
    /\ last.svc \in Services
    /\ Len(instances[last.svc]) = 3
    /\ last.advances = 3
    /\ last.sel # Throw

\* C29 (as claimed): a selection that fails on N >= 1 disabled instances
\* moves the cursor one position modulo N.
C29_FailureMovesCursorModulo ==
    [][\A s \in Services :
          (/\ last'.op = "proxy" /\ last'.svc = s /\ last'.sel = Throw
           /\ Len(instances[s]) >= 1)
          => index'[s] = (index[s] + 1) % Len(instances[s])]_vars

\* C25: a forward is created only by the proxy handler, in the step of its
\* selection, for the url of an instance that is in the list and enabled in
\* that step; the forward that ends is one that was created so, whatever
\* unregister and enableOrDisable did to the list while it was in flight.
C25_ForwardToSelectedInstance ==
    [][/\ \A f \in BagToSet(fwd') :
            CopiesIn(f, fwd') > CopiesIn(f, fwd)
            => (/\ last'.op = "proxy"
                /\ last'.svc = f.svc /\ last'.url = f.url
                /\ EnabledAt(instances[f.svc], f.url)
                /\ instances[f.svc][last'.sel + 1].url = f.url
                /\ instances' = instances)
       /\ last'.op = "forwarded"
            => \E d \in BOOLEAN :
                   BagIn(Forward(last'.svc, last'.url, d), fwd)]_vars

\* C25 witness: a forward ended after its instance had been unregistered.
C25_Witness ==
    /\ last.op = "forwarded"
    /\ last.url \in removed[last.svc]
    /\ ~HasUrl(instances[last.svc], last.url)

StrategyWrites(ws, s) ==
    LET sw == {w \in BagToSet(ws) : w.op = "strategy" /\ w.svc = s}
    IN  BagCardinality([w \in sw |-> ws[w]])

\* C26: a proxied request to a known service leaves its strategy set to
\* ROUND_ROBIN whether or not the selection succeeds; it issues exactly one
\* write, a strategy write, when the strategy was not set and none when it
\* was; no other step issues a strategy write, and a strategy that is set
\* is never cleared or changed.
C26_DefaultStrategyOnce ==
    [][/\ \A s \in Services :
            /\ strategy[s] # Absent => strategy'[s] = strategy[s]
            /\ StrategyWrites(writes', s) > StrategyWrites(writes, s)
                 => (last'.op = "proxy" /\ last'.svc = s)
       /\ (last'.op = "proxy" /\ last'.svc \in Services) =>
            LET s == last'.svc
            IN  /\ strategy'[s] = "ROUND_ROBIN"
                /\ strategy[s] = Absent =>
                     /\ BagCardinality(writes') = BagCardinality(writes) + 1
                     /\ StrategyWrites(writes', s) = StrategyWrites(writes, s) + 1
                /\ strategy[s] # Absent => writes' = writes]_vars

\* C26 witness: the selection of the request failed, and yet the strategy
\* is set and its write is pending.
C26_Witness ==
    /\ last.op = "proxy"
    /\ last.svc \in Services
    /\ last.sel = Throw
    /\ strategy[last.svc] = "ROUND_ROBIN"
    /\ StrategyWrites(writes, last.svc) = 1

\* C27: an instance registered by a body without an enabled field is stored
\* without the field; its flag leaves that state only in an enableOrDisable
\* call naming it; a selection returns only instances whose flag is true,
\* and fails on a service all of whose instances lack the field.
C27_UnflaggedNeverSelected ==
    [][/\ (last'.op = "register" /\ last'.status = NoStatus
             /\ last'.svc \in Services /\ last'.en = Absent)
            => FlagOf(instances'[last'.svc], last'.url) = Absent
       /\ \A s \in Services, u \in Urls :
            (/\ HasUrl(instances[s], u) /\ HasUrl(instances'[s], u)
             /\ FlagOf(instances[s], u) = Absent
             /\ FlagOf(instances'[s], u) # Absent)
            => (last'.op = "enableOrDisable" /\ last'.url = u)
       /\ (last'.op = "proxy" /\ last'.svc \in Services) =>
            LET insts == instances[last'.svc]
            IN  /\ last'.sel # Throw => insts[last'.sel + 1].enabled = "true"
                /\ (\A i \in 1..Len(insts) : insts[i].enabled = Absent)
                     => last'.sel = Throw]_vars

\* C27 witness: the only instance of the service was registered without the
\* field, its register call was answered 200, and the selection failed.
C27_Witness ==
    /\ last.op = "proxy"
    /\ last.svc \in Services
    /\ last.sel = Throw
    /\ Len(instances[last.svc]) = 1
    /\ instances[last.svc][1].enabled = Absent
    /\ regOk[last.svc] = 1

\* The list without its element at 0-based position i.
Without(insts, i) ==
    [k \in 1..(Len(insts) - 1) |-> IF k <= i THEN insts[k] ELSE insts[k + 1]]

Handlers == {"register", "unregister", "enableOrDisable", "proxy"}
Pending(ws, fs) == BagCardinality(ws) + BagCardinality(fs)

\* C30: no request is answered twice.  A handler that answers in its own
\* step leaves nothing pending that could answer again, except the write
\* of the default strategy; a handler that does not answer leaves one
\* write or one forward pending; a callback or continuation ends exactly
\* one of them and starts none; the callback of the default-strategy write
\* sends nothing; and the request that defaulted the strategy, which has a
\* write and a forward pending at once, is sent at most one response.
C30_AnsweredAtMostOnce ==
    [][/\ \A s \in DOMAIN sent' : sent'[s] <= 1
       /\ (last'.op \in Handlers /\ last'.status # NoStatus)
            => /\ fwd' = fwd
               /\ \/ writes' = writes
                  \/ /\ last'.op = "proxy"
                     /\ StrategyWrites(writes', last'.svc) = 1
                     /\ Pending(writes', fwd') = Pending(writes, fwd) + 1
       /\ (last'.op \in Handlers \ {"proxy"} /\ last'.status = NoStatus)
            => /\ fwd' = fwd
               /\ BagCardinality(writes') = BagCardinality(writes) + 1
       /\ (last'.op = "proxy" /\ last'.status = NoStatus /\ ~crashed')
            => BagCardinality(fwd') = BagCardinality(fwd) + 1
       /\ last'.op \in {"written", "forwarded"}
            => Pending(writes', fwd') = Pending(writes, fwd) - 1
       /\ (last'.op = "written" /\ last'.key = "strategy")
            => last'.status = NoStatus]_vars

\* C30 witness: the write of the default strategy failed while the forward
\* of the request that issued it was in flight.
C30_Witness ==
    /\ last.op = "written"
    /\ last.key = "strategy"
    /\ last.failed
    /\ \E f \in BagToSet(fwd) : f.svc = last.svc /\ f.dflt

====
